---- MODULE Spec2Model ----
(***************************************************************************)
(* Natural Language CLI (nlcli): the instruction-to-command pipeline.      *)
(*                                                                         *)
(*   NaturalLanguageCommand   src/unnamed/part_000  (session, executor)    *)
(*   CommandParserService     src/unnamed/part_001  (orchestrator, rules)  *)
(*   OpenAIService            src/src/services/openai.service.spec.ts      *)
(*                                                                         *)
(* JavaScript strings are TLA+ strings; a nullable string is <<>> (null)   *)
(* or <<s>>.                                                               *)
(***************************************************************************)
EXTENDS Integers, Sequences, FiniteSets, TLC

\* ------------------------------------------------------------------ bounds
\* words of an instruction handed to the Pattern Resolver
MaxWords == 3
\* elements of the array in a completion-service reply
MaxReply == 2
\* entries the instruction prompt's validation rejects in one session
MaxRejects == 1
\* child-process events delivered to one runShellCommand call
MaxEvents == 3

VARIABLES
  \* --- NaturalLanguageCommand.run
  options,       \* [instruction: <<>> or <<text>>, dry: BOOLEAN]
  answers,       \* what the user answers at the selection and confirmation prompts
  pc,            \* where run() is
  instruction,   \* the local variable instruction: <<>> or <<text>>
  console,       \* console.log lines, in order
  prompts,       \* inquirer prompts issued, in order
  rejects,       \* entries refused by the instruction prompt's validate
  execCount,     \* calls of runShellCommand made by the session
  stub,          \* <<>>: the session is wired to CommandParserService;
                 \* <<list>>: to a stub whose parseNaturalLanguage resolves
                 \* with list
  \* --- CommandParserService / OpenAIService
  apiKey,        \* process.env.OPENAI_API_KEY when the OpenAIService was
                 \* constructed: <<>> (unset) or <<text>>
  hasClient,     \* OpenAIService.openai !== null
  requests,      \* calls of chat.completions.create
  orchPc,        \* where parseNaturalLanguage is
  orchInput,     \* its argument
  response,      \* what the completion service answered
  aiOutcome,     \* what convertToCommands returned or threw
  orchResult,    \* the value parseNaturalLanguage's promise resolved with
  warnings,      \* console.warn lines
  aiCalls,       \* calls of convertToCommands
  patCalls,      \* calls of parseWithPatterns
  \* --- parseWithPatterns called on its own
  patIn, patOut, patPc,
  \* --- runShellCommand
  shPc, shCommand, shOutput, shError, shSettled, shResult, shEvents,
  shThrown       \* what runShellCommand's promise rejected with: <<>> or <<message>>

sessVars == << options, answers, pc, instruction, console, prompts, rejects,
               execCount, stub >>
orchVars == << apiKey, hasClient, requests, orchPc, orchInput, response,
               aiOutcome, orchResult, warnings, aiCalls, patCalls >>
patVars  == << patIn, patOut, patPc >>
shVars   == << shPc, shCommand, shOutput, shError, shSettled, shResult,
               shEvents, shThrown >>
vars     == << sessVars, orchVars, patVars, shVars >>

\* ----------------------------------------------------------------- strings
Char(s, i) == SubSeq(s, i, i)

\* String.prototype.includes
Includes(s, k) ==
  \E i \in 1..(Len(s) - Len(k) + 1) : SubSeq(s, i, i + Len(k) - 1) = k

\* whether k occurs in s at position i
StartsAt(s, i, k) ==
  /\ i >= 1
  /\ i + Len(k) - 1 <= Len(s)
  /\ SubSeq(s, i, i + Len(k) - 1) = k

IsWs(c) == c \in {" ", "\t", "\n", "\r", "\f"}

IsQuote(c) == c \in {"'", "\""}

LowerChar(c) ==
  CASE c = "A" -> "a" [] c = "B" -> "b" [] c = "C" -> "c" [] c = "D" -> "d"
    [] c = "E" -> "e" [] c = "F" -> "f" [] c = "G" -> "g" [] c = "H" -> "h"
    [] c = "I" -> "i" [] c = "J" -> "j" [] c = "K" -> "k" [] c = "L" -> "l"
    [] c = "M" -> "m" [] c = "N" -> "n" [] c = "O" -> "o" [] c = "P" -> "p"
    [] c = "Q" -> "q" [] c = "R" -> "r" [] c = "S" -> "s" [] c = "T" -> "t"
    [] c = "U" -> "u" [] c = "V" -> "v" [] c = "W" -> "w" [] c = "X" -> "x"
    [] c = "Y" -> "y" [] c = "Z" -> "z" [] OTHER -> c

\* String.prototype.toLowerCase
RECURSIVE ToLowerCase(_)
ToLowerCase(s) ==
  IF s = "" THEN "" ELSE LowerChar(Char(s, 1)) \o ToLowerCase(Tail(s))

\* number of whitespace characters of s from position i on
RECURSIVE WsRun(_, _)
WsRun(s, i) ==
  IF i <= Len(s) /\ IsWs(Char(s, i)) THEN 1 + WsRun(s, i + 1) ELSE 0

\* number of whitespace characters of s ending at position i
RECURSIVE WsRunBack(_, _)
WsRunBack(s, i) ==
  IF i >= 1 /\ IsWs(Char(s, i)) THEN 1 + WsRunBack(s, i - 1) ELSE 0

\* String.prototype.trim
Trim(s) ==
  LET a == WsRun(s, 1)
  IN  IF a = Len(s) THEN "" ELSE SubSeq(s, a + 1, Len(s) - WsRunBack(s, Len(s)))

\* number of characters of s from position i on that are no quote: [^'"]*
RECURSIVE NonQuoteRun(_, _)
NonQuoteRun(s, i) ==
  IF i <= Len(s) /\ ~IsQuote(Char(s, i)) THEN 1 + NonQuoteRun(s, i + 1) ELSE 0

\* --------------------------------------------------- argument extractors
\* The four extractors share one regular expression shape (part_001:273-299):
\*   (?:k1|k2|..)\s+(?:o1|o2)?\s*['"]?([^'"]+)['"]?   with flag i.
\* After the keyword, which ends before position q, a match takes n1
\* whitespace characters, the optional word g (0: skipped), n2 whitespace
\* characters and qt opening quotes; the capture starts after them.
AfterWord(q, n1, g, opts) == q + n1 + (IF g = 0 THEN 0 ELSE Len(opts[g]))

TailMatches(s, ls, q, opts, n1, g, n2, qt) ==
  /\ g # 0 => StartsAt(ls, q + n1, opts[g])
  /\ n2 <= WsRun(s, AfterWord(q, n1, g, opts))
  /\ qt = 1 => /\ AfterWord(q, n1, g, opts) + n2 <= Len(s)
               /\ IsQuote(Char(s, AfterWord(q, n1, g, opts) + n2))
  /\ AfterWord(q, n1, g, opts) + n2 + qt <= Len(s)
  /\ ~IsQuote(Char(s, AfterWord(q, n1, g, opts) + n2 + qt))

TailChoices(s, ls, q, opts) ==
  { c \in (1..WsRun(s, q)) \X (0..Len(opts)) \X (0..Len(s)) \X {0, 1} :
      TailMatches(s, ls, q, opts, c[1], c[2], c[3], c[4]) }

\* The backtracking order of the match: greedy quantifiers take the longest
\* run first, the optional word is tried (alternatives in order) before it is
\* skipped, the optional quote is taken before it is skipped.
TailRank(s, opts, c) ==
  ((c[1] * (Len(opts) + 1) + (IF c[2] = 0 THEN 0 ELSE Len(opts) + 1 - c[2]))
     * (Len(s) + 1) + c[3]) * 2 + c[4]

BestTail(s, opts, cs) ==
  CHOOSE x \in cs : \A y \in cs : TailRank(s, opts, y) <= TailRank(s, opts, x)

CaptureOf(q, opts, c) == AfterWord(q, c[1], c[2], opts) + c[3] + c[4]

FirstCapture(s, q, opts, cs) ==
  IF cs = {} THEN 0 ELSE CaptureOf(q, opts, BestTail(s, opts, cs))

\* first position of the capture group, 0 when the tail does not match at q
CaptureStart(s, ls, q, opts) == FirstCapture(s, q, opts, TailChoices(s, ls, q, opts))

\* the keyword occurrences <<position, alternative>> from which the whole
\* expression matches
Hits(s, ls, kws, opts) ==
  { h \in (1..Len(s)) \X (1..Len(kws)) :
      /\ StartsAt(ls, h[1], kws[h[2]])
      /\ CaptureStart(s, ls, h[1] + Len(kws[h[2]]), opts) # 0 }

\* the leftmost position wins, and at one position the first alternative
FirstHit(hits) ==
  CHOOSE x \in hits :
    \A y \in hits : x[1] < y[1] \/ (x[1] = y[1] /\ x[2] <= y[2])

\* match[1].trim() for a capture starting at u
Captured(s, u) == Trim(SubSeq(s, u, u + NonQuoteRun(s, u) - 1))

CapturedAt(s, ls, kws, opts, h) ==
  Captured(s, CaptureStart(s, ls, h[1] + Len(kws[h[2]]), opts))

MatchOf(s, ls, kws, opts, hits) ==
  IF hits = {} THEN << >>
  ELSE << CapturedAt(s, ls, kws, opts, FirstHit(hits)) >>

MatchLowered(s, ls, kws, opts) ==
  MatchOf(s, ls, kws, opts, Hits(s, ls, kws, opts))

\* input.match(re): <<>> for null, else <<match[1].trim()>>
RegexExtract(s, kws, opts) == MatchLowered(s, ToLowerCase(s), kws, opts)

\* extractDirectoryName without the optional word (?:called|named)?
extractDirectoryNameNoOption(input) ==
  RegexExtract(input, <<"folder", "directory", "dir">>, << >>)

extractDirectoryName(input) ==
  RegexExtract(input, <<"folder", "directory", "dir">>, <<"called", "named">>)

extractFileName(input) ==
  RegexExtract(input, <<"file">>, <<"called", "named">>)

extractSearchTerm(input) ==
  RegexExtract(input, <<"find", "search">>, <<"for">>)

extractPackageName(input) ==
  RegexExtract(input, <<"install", "add">>, <<"package">>)

\* the template literal without  || d : a null match is printed as "null"
NoDefault(m, d) == IF m = << >> THEN "null" ELSE m[1]

\* JavaScript's  m || d  for a nullable string m: null and "" are falsy
OrDefault(m, d) == IF m = <<>> \/ m[1] = "" THEN d ELSE m[1]

\* keywords.some((keyword) => input.includes(keyword))
matches(input, keywords) == \E k \in keywords : Includes(input, k)

\* ------------------------------------------------------- Pattern Resolver
\* A field of a command option is a JavaScript value: its type and, for a
\* string, number or boolean, its text.
Str(x) == [t |-> "str", v |-> x]

Undefined == [t |-> "undefined", v |-> ""]

\* interface CommandOption (part_001:4-8)
Cmd(c, d, r) == [command |-> Str(c), description |-> Str(d), risk |-> Str(r)]

\* input.toLowerCase().trim()
Normalize(input) == Trim(ToLowerCase(input))

ListGroup(n) ==
  IF matches(n, {"list", "show", "files", "directory", "dir"})
  THEN << Cmd("ls -la", "List all files and directories with details", "low"),
          Cmd("find . -type f -name \"*\" | head -20",
              "Find and list first 20 files in current directory", "low") >>
  ELSE << >>

\* lines 70-74, with dirName || 'new_directory' as name
MkdirCommand(name) ==
  << Cmd("mkdir -p " \o name, "Create directory: " \o name, "low") >>

CreateDirGroup(n) ==
  IF matches(n, {"create", "make", "new", "folder", "directory"})
  THEN MkdirCommand(OrDefault(extractDirectoryName(n), "new_directory"))
  ELSE << >>

\* lines 79-83, with fileName || 'new_file.txt' as name
TouchCommand(name) ==
  << Cmd("touch " \o name, "Create empty file: " \o name, "low") >>

CreateFileGroup(n) ==
  IF matches(n, {"create", "make", "new", "file"})
  THEN TouchCommand(OrDefault(extractFileName(n), "new_file.txt"))
  ELSE << >>

\* lines 89-93, with fileName || 'filename' as name
RmCommand(name) ==
  << Cmd("rm " \o name, "Delete file: " \o name, "medium") >>

\* RmRfCommand with the risk of the file branch
RmRfMedium(name) ==
  << Cmd("rm -rf " \o name, "Delete directory and all contents: " \o name,
         "medium") >>

\* lines 96-100, with dirName || 'directory' as name
RmRfCommand(name) ==
  << Cmd("rm -rf " \o name, "Delete directory and all contents: " \o name,
         "high") >>

\* DeleteGroup with the two branches tested in the other order
DeleteDirFirst(n) ==
  IF matches(n, {"delete", "remove", "rm"})
  THEN IF matches(n, {"directory", "folder"})
       THEN RmRfCommand(OrDefault(extractDirectoryName(n), "directory"))
       ELSE IF matches(n, {"file"})
       THEN RmCommand(OrDefault(extractFileName(n), "filename"))
       ELSE << >>
  ELSE << >>

\* DeleteGroup with two independent tests instead of if / else if
DeleteBoth(n) ==
  IF matches(n, {"delete", "remove", "rm"})
  THEN (IF matches(n, {"file"})
        THEN RmCommand(OrDefault(extractFileName(n), "filename"))
        ELSE << >>)
       \o (IF matches(n, {"directory", "folder"})
           THEN RmRfCommand(OrDefault(extractDirectoryName(n), "directory"))
           ELSE << >>)
  ELSE << >>

DeleteGroup(n) ==
  IF matches(n, {"delete", "remove", "rm"})
  THEN IF matches(n, {"file"})
       THEN RmCommand(OrDefault(extractFileName(n), "filename"))
       ELSE IF matches(n, {"directory", "folder"})
       THEN RmRfCommand(OrDefault(extractDirectoryName(n), "directory"))
       ELSE << >>
  ELSE << >>

GitStatusGroup(n) ==
  IF matches(n, {"git", "status", "check"})
  THEN << Cmd("git status", "Show git repository status", "low") >>
  ELSE << >>

GitAddGroup(n) ==
  IF matches(n, {"git", "add", "stage"})
  THEN << Cmd("git add .", "Stage all changes for commit", "low"),
          Cmd("git add -A", "Stage all changes including deletions", "low") >>
  ELSE << >>

GitCommitGroup(n) ==
  IF matches(n, {"git", "commit"})
  THEN << Cmd("git commit -m \"Update\"",
              "Commit staged changes with generic message", "low") >>
  ELSE << >>

\* GitPushGroup with its two commands in the other order
GitPushSwapped(n) ==
  IF matches(n, {"git", "push"})
  THEN << Cmd("git push", "Push commits to current branch", "medium"),
          Cmd("git push origin main", "Push commits to main branch", "medium") >>
  ELSE << >>

GitPushGroup(n) ==
  IF matches(n, {"git", "push"})
  THEN << Cmd("git push origin main", "Push commits to main branch", "medium"),
          Cmd("git push", "Push commits to current branch", "medium") >>
  ELSE << >>

GitPullGroup(n) ==
  IF matches(n, {"git", "pull"})
  THEN << Cmd("git pull origin main", "Pull latest changes from main branch",
              "medium"),
          Cmd("git pull", "Pull latest changes from current branch", "medium") >>
  ELSE << >>

PwdGroup(n) ==
  IF matches(n, {"current", "directory", "where", "location"})
  THEN << Cmd("pwd", "Show current directory path", "low") >>
  ELSE << >>

DiskGroup(n) ==
  IF matches(n, {"disk", "space", "usage", "size"})
  THEN << Cmd("df -h", "Show disk space usage", "low"),
          Cmd("du -sh *", "Show size of files and directories", "low") >>
  ELSE << >>

ProcessGroup(n) ==
  IF matches(n, {"processes", "running", "tasks"})
  THEN << Cmd("ps aux", "Show all running processes", "low"),
          Cmd("top", "Show real-time process activity", "low") >>
  ELSE << >>

\* lines 204-213, with searchTerm || 'search_term' as term
SearchCommands(term) ==
  << Cmd("find . -name \"*" \o term \o "*\"",
         "Find files containing: " \o term, "low"),
     Cmd("grep -r \"" \o term \o "\" .",
         "Search for text in files: " \o term, "low") >>

SearchGroup(n) ==
  IF matches(n, {"find", "search"})
  THEN SearchCommands(OrDefault(extractSearchTerm(n), "search_term"))
  ELSE << >>

\* lines 219-223, with packageName || 'package_name' as name
InstallCommand(name) ==
  << Cmd("pnpm install " \o name, "Install package: " \o name, "medium") >>

InstallGroup(n) ==
  IF matches(n, {"install", "npm", "pnpm", "package"})
  THEN InstallCommand(OrDefault(extractPackageName(n), "package_name"))
  ELSE << >>

RunGroup(n) ==
  IF matches(n, {"run", "start", "dev", "serve"})
  THEN << Cmd("pnpm run dev", "Start development server", "low"),
          Cmd("pnpm start", "Start application", "low") >>
  ELSE << >>

BuildGroup(n) ==
  IF matches(n, {"build", "compile"})
  THEN << Cmd("pnpm run build", "Build the application", "low") >>
  ELSE << >>

\* RuleCommands where a matching group keeps the later groups from running
FirstGroupOnly(n) ==
  LET groups == << ListGroup(n), CreateDirGroup(n), CreateFileGroup(n),
                   DeleteGroup(n), GitStatusGroup(n), GitAddGroup(n),
                   GitCommitGroup(n), GitPushGroup(n), GitPullGroup(n),
                   PwdGroup(n), DiskGroup(n), ProcessGroup(n), SearchGroup(n),
                   InstallGroup(n), RunGroup(n), BuildGroup(n) >>
      hit == { i \in 1..Len(groups) : groups[i] # << >> }
  IN  IF hit = {} THEN << >>
      ELSE groups[CHOOSE i \in hit : \A j \in hit : i <= j]

\* the commands pushed by the rule groups, in declaration order
RuleCommands(n) ==
  ListGroup(n) \o CreateDirGroup(n) \o CreateFileGroup(n) \o DeleteGroup(n)
    \o GitStatusGroup(n) \o GitAddGroup(n) \o GitCommitGroup(n)
    \o GitPushGroup(n) \o GitPullGroup(n) \o PwdGroup(n) \o DiskGroup(n)
    \o ProcessGroup(n) \o SearchGroup(n) \o InstallGroup(n) \o RunGroup(n)
    \o BuildGroup(n)

GeneralSuggestions ==
  << Cmd("ls -la", "List current directory contents", "low"),
     Cmd("pwd", "Show current directory path", "low"),
     Cmd("help", "Show available commands", "low") >>

\* WithFallback without the test of line 248: nothing is ever added
NoFallback(commands) == commands

\* WithFallback without the test of line 248: the suggestions are always added
AlwaysSuggest(commands) == commands \o GeneralSuggestions

\* if (commands.length === 0) push the general suggestions
WithFallback(commands) ==
  IF Len(commands) = 0 THEN commands \o GeneralSuggestions ELSE commands

parseWithPatterns(input) == WithFallback(RuleCommands(Normalize(input)))

\* ------------------------------------------------------------ AI Resolver
\* Truthy that only asks for the field to be there
TruthyLoose(x) == x.t \notin {"undefined", "null"}

\* JavaScript truthiness of a field value
Truthy(x) ==
  CASE x.t \in {"undefined", "null"} -> FALSE
    [] x.t = "str"  -> x.v # ""
    [] x.t = "num"  -> x.v # "0"
    [] x.t = "bool" -> x.v = "true"
    [] OTHER -> TRUE

RiskLevels == {"low", "medium", "high"}

\* ['low', 'medium', 'high'].includes(cmd.risk)
IsRiskLevel(x) == x.t = "str" /\ x.v \in RiskLevels

\* NormalizeRisk without lines 327-329
KeepRisk(x) == x

\* if (!['low','medium','high'].includes(cmd.risk)) cmd.risk = 'medium'
NormalizeRisk(x) == IF IsRiskLevel(x) THEN x ELSE Str("medium")

\* an error object: its class, its code property and its message
Err(name, code, message) ==
  [ok |-> FALSE, commands |-> << >>, name |-> name, code |-> code,
   message |-> message]

Returned(commands) ==
  [ok |-> TRUE, commands |-> commands, name |-> "", code |-> "", message |-> ""]

\* ValidateFrom that leaves out an element it cannot accept and goes on
RECURSIVE ValidateSkipping(_, _, _)
ValidateSkipping(items, i, acc) ==
  IF i > Len(items) THEN Returned(acc)
  ELSE IF items[i].t = "null" \/ ~Truthy(items[i].command)
            \/ ~Truthy(items[i].description) \/ ~Truthy(items[i].risk)
  THEN ValidateSkipping(items, i + 1, acc)
  ELSE ValidateSkipping(items, i + 1,
         Append(acc, [command |-> items[i].command,
                      description |-> items[i].description,
                      risk |-> NormalizeRisk(items[i].risk)]))

\* the loop over the parsed array (openai.service.spec.ts:322-330): the
\* result of validating items[i..], given the commands accepted so far
RECURSIVE ValidateFrom(_, _, _)
ValidateFrom(items, i, acc) ==
  IF i > Len(items) THEN Returned(acc)
  ELSE LET cmd == items[i]
       IN  IF cmd.t = "null"
           THEN Err("TypeError", "",
                    "Cannot read properties of null (reading 'command')")
           ELSE IF ~Truthy(cmd.command) \/ ~Truthy(cmd.description)
                     \/ ~Truthy(cmd.risk)
           THEN Err("Error", "", "Invalid command structure from OpenAI")
           ELSE ValidateFrom(items, i + 1,
                  Append(acc, [command |-> cmd.command,
                               description |-> cmd.description,
                               risk |-> NormalizeRisk(cmd.risk)]))

\* the body of the try block (lines 299-332) for an answer resp of the service
TryBody(resp) ==
  CASE resp.kind = "apiError" ->
         Err("Error", resp.code, resp.message)
    [] resp.kind = "apiSyntax" ->
         Err("SyntaxError", resp.code, resp.message)
    [] resp.kind = "rejectNull" ->
         Err("null", "", "")
    [] resp.kind \in {"noContent", "emptyContent"} ->
         Err("Error", "", "No response from OpenAI")
    [] resp.kind = "notJson" ->
         Err("SyntaxError", "", resp.message)
    [] resp.kind = "notArray" ->
         Err("Error", "", "Invalid response format from OpenAI")
    [] OTHER -> ValidateFrom(resp.items, 1, << >>)

\* CatchBlock without the test for SyntaxError of lines 334-337
CatchNoSyntax(e) ==
  IF e.name = "null"
  THEN Err("TypeError", "", "Cannot read properties of null (reading 'code')")
  ELSE IF e.code = "insufficient_quota"
  THEN Err("Error", "", "OpenAI API quota exceeded. Please check your billing.")
  ELSE IF e.code = "invalid_api_key"
  THEN Err("Error", "",
           "Invalid OpenAI API key. Please check your OPENAI_API_KEY environment variable.")
  ELSE Err("Error", "", "OpenAI API error: " \o e.message)

\* CatchBlock without the test for insufficient_quota of lines 339-343
CatchNoQuota(e) ==
  IF e.name = "null"
  THEN Err("TypeError", "", "Cannot read properties of null (reading 'code')")
  ELSE IF e.name = "SyntaxError"
  THEN Err("Error", "", "Invalid JSON response from OpenAI")
  ELSE IF e.code = "invalid_api_key"
  THEN Err("Error", "",
           "Invalid OpenAI API key. Please check your OPENAI_API_KEY environment variable.")
  ELSE Err("Error", "", "OpenAI API error: " \o e.message)

\* the catch block (lines 333-353); a rejection with null is no SyntaxError,
\* and reading its code property throws a TypeError out of the block
CatchBlock(e) ==
  IF e.name = "null"
  THEN Err("TypeError", "", "Cannot read properties of null (reading 'code')")
  ELSE IF e.name = "SyntaxError"
  THEN Err("Error", "", "Invalid JSON response from OpenAI")
  ELSE IF e.code = "insufficient_quota"
  THEN Err("Error", "", "OpenAI API quota exceeded. Please check your billing.")
  ELSE IF e.code = "invalid_api_key"
  THEN Err("Error", "",
           "Invalid OpenAI API key. Please check your OPENAI_API_KEY environment variable.")
  ELSE Err("Error", "", "OpenAI API error: " \o e.message)

\* the constructor (lines 253-260): a client exists when the credential read
\* from the environment is truthy
Constructor(key) == key # << >> /\ key[1] # ""

\* isConfigured(): this.openai !== null
isConfigured == hasClient

\* convertToCommands without the guard of lines 263-267
NoGuard(client, resp) ==
  LET r == TryBody(resp)
  IN  IF r.ok THEN r ELSE CatchBlock(r)

\* OpenAIService.convertToCommands, given whether the client exists and what
\* the completion service answers
convertToCommands(client, resp) ==
  IF ~client
  THEN Err("Error", "",
           "OpenAI API key not configured. Please set OPENAI_API_KEY environment variable.")
  ELSE LET r == TryBody(resp)
       IN  IF r.ok THEN r ELSE CatchBlock(r)

\* ----------------------------------------------------------------- inputs
Words ==
  {"", "Remove", "rm", "file", "folder", "directory", "called", "-rf",
   "'logs'", "list", "git"}

RECURSIVE Join(_)
Join(ws) ==
  IF Len(ws) = 0 THEN ""
  ELSE IF Len(ws) = 1 THEN ws[1]
  ELSE ws[1] \o " " \o Join(Tail(ws))

\* whole instructions: those of the tests (main.ts:101-333) and variations
\* of them with no name, a capitalised name, a quoted name, trailing words
Phrases ==
  {"list files", "create a new file", "delete a file", "delete a directory",
   "check git status", "commit changes", "push to git", "pull from git",
   "check disk space", "find files", "install a package",
   "create a folder called test-dir", "create a file called test.txt",
   "push changes", "find", "search for", "install", "npm",
   "search for 'config'", "install package lodash",
   "create a folder called Test-Dir", "make a directory named 'My Docs'",
   "create a folder called test-dir and list it",
   "rm file -rf folder", "list git status"}

PatternInputs ==
  { Join(ws) : ws \in UNION { [1..n -> Words] : n \in 1..MaxWords } }
    \cup Phrases

SessionInstructions ==
  {"list files", "delete a directory", "some random instruction", "   "}

\* the lists the stubbed parseNaturalLanguage of the session's tests resolves
\* with: mockCommands (part_000:245-257) and the empty list (part_000:317)
MockCommands ==
  << Cmd("ls -la", "List all files and directories with details", "low"),
     Cmd("pwd", "Show current directory path", "low") >>

Stubs == {<< >>, << << >> >>, << MockCommands >>}

Obj(c, d, r) == [t |-> "obj", command |-> c, description |-> d, risk |-> r]

ReplyElements ==
  { Obj(Str("ls -la"), Str("List files"), Str("low")),
    Obj(Str("rm -rf x"), Str("Remove x"), Str("high")),
    Obj(Str("ls"), Str("List"), Str("HIGH")),
    Obj(Str("ls"), Str("List"), [t |-> "num", v |-> "5"]),
    Obj(Str("ls"), Str("List"), Undefined),
    Obj(Str("ls"), Str("List"), Str("")),
    Obj(Str("ls"), Undefined, Str("low")),
    Obj(Str(""), Str("List"), Str("low")),
    [t |-> "null", command |-> Undefined, description |-> Undefined,
     risk |-> Undefined] }

Resp(kind, code, message, items) ==
  [kind |-> kind, code |-> code, message |-> message, items |-> items]

NoResp == Resp("none", "", "", << >>)

Responses ==
  { Resp("array", "", "", items) :
      items \in UNION { [1..n -> ReplyElements] : n \in 0..MaxReply } }
  \cup { Resp("apiError", c, "Network error", << >>) :
           c \in {"", "insufficient_quota", "invalid_api_key"} }
  \cup { Resp("noContent", "", "", << >>),
         Resp("notJson", "", "Unexpected token i in JSON at position 0", << >>),
         Resp("emptyContent", "", "", << >>),
         Resp("notArray", "", "", << >>),
         Resp("rejectNull", "", "", << >>) }
  \cup { Resp("apiSyntax", c, "Unexpected end of JSON input", << >>) :
           c \in {"", "insufficient_quota"} }

NoOutcome == Err("", "", "")

\* -------------------------------------------------- Resolution Orchestrator
\* parseNaturalLanguage up to its first suspension (part_001:14-18, 31): with
\* a client it calls convertToCommands and waits for the service; without
\* one it runs the Pattern Resolver at once.
ParseStart(input) ==
  /\ orchInput' = input
  /\ IF isConfigured
     THEN /\ orchPc' = "awaitAI"
          /\ aiCalls' = aiCalls + 1
          /\ requests' = requests + 1
          /\ UNCHANGED << orchResult, patCalls >>
     ELSE /\ orchPc' = "done"
          /\ orchResult' = parseWithPatterns(input)
          /\ patCalls' = patCalls + 1
          /\ UNCHANGED << aiCalls, requests >>
  /\ UNCHANGED << apiKey, hasClient, response, aiOutcome, warnings >>

\* OrchestratorResult that puts the pattern commands after the AI commands
MergedResult(outcome, input) ==
  IF outcome.ok /\ Len(outcome.commands) > 0
  THEN outcome.commands \o parseWithPatterns(input)
  ELSE parseWithPatterns(input)

\* OrchestratorResult without the test commands.length > 0 of line 19
AcceptEmpty(outcome, input) ==
  IF outcome.ok THEN outcome.commands ELSE parseWithPatterns(input)

\* what parseNaturalLanguage does with the outcome of convertToCommands
\* (part_001:18-31): a non-empty list is returned as it is
OrchestratorResult(outcome, input) ==
  IF outcome.ok /\ Len(outcome.commands) > 0
  THEN outcome.commands
  ELSE parseWithPatterns(input)

\* AIReply that calls convertToCommands a second time after a failure
AIReplyRetry ==
  /\ orchPc = "awaitAI"
  /\ \E resp \in Responses :
       LET outcome == convertToCommands(hasClient, resp)
       IN  /\ response' = resp
           /\ aiOutcome' = outcome
           /\ IF ~outcome.ok /\ aiCalls < 2
              THEN /\ orchPc' = "awaitAI"
                   /\ aiCalls' = aiCalls + 1
                   /\ requests' = requests + 1
                   /\ UNCHANGED << orchResult, warnings, patCalls >>
              ELSE /\ orchPc' = "done"
                   /\ orchResult' = OrchestratorResult(outcome, orchInput)
                   /\ warnings' =
                        IF outcome.ok THEN warnings
                        ELSE Append(warnings,
                               "OpenAI API failed, falling back to pattern matching: "
                                 \o outcome.message)
                   /\ patCalls' =
                        IF outcome.ok /\ Len(outcome.commands) > 0
                        THEN patCalls ELSE patCalls + 1
                   /\ UNCHANGED << aiCalls, requests >>
  /\ UNCHANGED << apiKey, hasClient, orchInput >>
  /\ UNCHANGED << sessVars, patVars, shVars >>

\* AIReply whose catch block logs nothing
AIReplySilent ==
  /\ orchPc = "awaitAI"
  /\ \E resp \in Responses :
       LET outcome == convertToCommands(hasClient, resp)
       IN  /\ response' = resp
           /\ aiOutcome' = outcome
           /\ orchResult' = OrchestratorResult(outcome, orchInput)
           /\ patCalls' =
                IF outcome.ok /\ Len(outcome.commands) > 0
                THEN patCalls ELSE patCalls + 1
  /\ orchPc' = "done"
  /\ UNCHANGED << apiKey, hasClient, requests, orchInput, aiCalls, warnings >>
  /\ UNCHANGED << sessVars, patVars, shVars >>

\* the service answers: convertToCommands finishes and parseNaturalLanguage
\* resumes (part_001:18-32)
AIReply ==
  /\ orchPc = "awaitAI"
  /\ \E resp \in Responses :
       LET outcome == convertToCommands(hasClient, resp)
       IN  /\ response' = resp
           /\ aiOutcome' = outcome
           /\ orchResult' = OrchestratorResult(outcome, orchInput)
           /\ warnings' =
                IF outcome.ok THEN warnings
                ELSE Append(warnings,
                       "OpenAI API failed, falling back to pattern matching: "
                         \o outcome.message)
           /\ patCalls' =
                IF outcome.ok /\ Len(outcome.commands) > 0
                THEN patCalls ELSE patCalls + 1
  /\ orchPc' = "done"
  /\ UNCHANGED << apiKey, hasClient, requests, orchInput, aiCalls >>
  /\ UNCHANGED << sessVars, patVars, shVars >>

\* ------------------------------------------ convertToCommands called on its own
\* the call up to the request (openai.service.spec.ts:262-307): without a
\* client it throws at once, with one it sends the request and waits
ConvertCall ==
  /\ orchPc = "aiReady"
  /\ \E instr \in SessionInstructions : orchInput' = instr
  /\ aiCalls' = aiCalls + 1
  /\ IF hasClient
     THEN /\ requests' = requests + 1
          /\ orchPc' = "aiAwait"
          /\ UNCHANGED aiOutcome
     ELSE /\ aiOutcome' = convertToCommands(hasClient, NoResp)
          /\ orchPc' = "aiDone"
          /\ UNCHANGED requests
  /\ UNCHANGED << apiKey, hasClient, response, orchResult, warnings, patCalls >>
  /\ UNCHANGED << sessVars, patVars, shVars >>

\* the service answers and the call finishes (lines 299-353)
ConvertAnswer ==
  /\ orchPc = "aiAwait"
  /\ \E resp \in Responses :
       /\ response' = resp
       /\ aiOutcome' = convertToCommands(hasClient, resp)
  /\ orchPc' = "aiDone"
  /\ UNCHANGED << apiKey, hasClient, requests, orchInput, orchResult, warnings,
                  aiCalls, patCalls >>
  /\ UNCHANGED << sessVars, patVars, shVars >>

\* ------------------------------------------------------ Interactive Session
Banner == << "Natural Language CLI",
             "Convert your instructions into bash commands" >>

PromptEntries == {"", "   ", "list files", "delete a directory"}

\* validate without the trim
validateUntrimmed(input) == Len(input) > 0

\* validate: (input) => input.trim().length > 0 || 'Please enter an instruction'
validate(input) == Len(Trim(input)) > 0

\* run(), lines 29-36: the banner, then the instruction option; a missing or
\* empty one (!instruction) opens the input prompt
Start ==
  /\ pc = "start"
  /\ console' = console \o Banner
  /\ instruction' = options.instruction
  /\ IF options.instruction = << >> \/ options.instruction[1] = ""
     THEN /\ prompts' = Append(prompts, "input")
          /\ pc' = "prompt"
     ELSE /\ prompts' = prompts
          /\ pc' = "resolve"
  /\ UNCHANGED << options, answers, rejects, execCount, stub >>
  /\ UNCHANGED << orchVars, patVars, shVars >>

\* lines 36-45: the user submits an entry; the prompt keeps asking until
\* validate accepts one
PromptInstruction ==
  /\ pc = "prompt"
  /\ \E entry \in PromptEntries :
       IF validate(entry)
       THEN /\ instruction' = << entry >>
            /\ pc' = "resolve"
            /\ rejects' = rejects
       ELSE /\ rejects < MaxRejects
            /\ rejects' = rejects + 1
            /\ UNCHANGED << instruction, pc >>
  /\ UNCHANGED << options, answers, console, prompts, execCount, stub >>
  /\ UNCHANGED << orchVars, patVars, shVars >>

\* The value run() holds in commandOptions. parseNaturalLanguage is declared
\* async (part_001:14) and line 49 calls it without await, so the value is
\* the Promise, whatever it later resolves with.
Unawaited == [t |-> "promise", items |-> << >>]

\* commandOptions.length === 0 (a Promise has no length property)
LengthIsZero(v) == v.t = "array" /\ Len(v.items) = 0

\* whether commandOptions.forEach is a function
HasForEach(v) == v.t = "array"

\* the lines logged for the candidates (lines 58-64)
RECURSIVE Listing(_)
Listing(items) ==
  IF Len(items) = 0 THEN << >>
  ELSE << items[1].command.v, items[1].description.v,
          "Risk: " \o items[1].risk.v >> \o Listing(Tail(items))

\* lines 47-64, one synchronous stretch: the call of parseNaturalLanguage,
\* the test for an empty result and the listing. On a Promise the test is
\* false and forEach is undefined: the call throws a TypeError and run()
\* rejects, so lines 66-116 (selection, dry run, confirmation, execution)
\* are never reached.
Resolve ==
  /\ pc = "resolve"
  /\ IF stub = << >> THEN ParseStart(instruction[1]) ELSE UNCHANGED orchVars
  /\ LET commandOptions == Unawaited
     IN  IF LengthIsZero(commandOptions)
         THEN /\ console' = Append(console,
                              "No matching commands found for your instruction.")
              /\ pc' = "done"
         ELSE IF HasForEach(commandOptions)
         THEN /\ console' = Append(console, "Available Commands:")
                              \o Listing(commandOptions.items)
              /\ pc' = "select"
         ELSE /\ console' = Append(console, "Available Commands:")
              /\ pc' = "rejected"
  /\ UNCHANGED << options, answers, instruction, prompts, rejects, execCount,
                  stub >>
  /\ UNCHANGED << patVars, shVars >>

\* --------------------------------------- parseWithPatterns called on its own
PatParse ==
  /\ patPc = "ready"
  /\ patOut' = parseWithPatterns(patIn)
  /\ patPc' = "done"
  /\ UNCHANGED patIn
  /\ UNCHANGED << sessVars, orchVars, shVars >>

\* ------------------------------------------------------------ Shell Executor
ShellCommands == {"ls -la", "exit 1"}

Chunks == {"a\n", " "}

\* exit codes; -1 stands for null (the child was ended by a signal)
ExitCodes == {0, 1, -1}

LaunchErrors == {"spawn sh ENOENT"}

\* x.trim() || undefined
TrimOrUndefined(x) == IF Trim(x) = "" THEN << >> ELSE << Trim(x) >>

Event(ev, data, code) == [ev |-> ev, data |-> data, code |-> code]

NoResult == [success |-> FALSE, output |-> << >>, error |-> << >>]

\* lines 149-155: spawn('sh', ['-c', command]) and the two empty buffers
RunShellCommand ==
  /\ shPc = "idle"
  /\ \E command \in ShellCommands : shCommand' = command
  /\ shPc' = "running"
  /\ shOutput' = ""
  /\ shError' = ""
  /\ UNCHANGED << shSettled, shResult, shEvents >>
  /\ UNCHANGED << shThrown, sessVars, orchVars, patVars >>

\* child.stdout.on('data', ...)
StdoutData ==
  /\ shPc = "running"
  /\ Len(shEvents) < MaxEvents
  /\ \E data \in Chunks :
       /\ shOutput' = shOutput \o data
       /\ shEvents' = Append(shEvents, Event("stdout", data, 0))
  /\ UNCHANGED << shPc, shCommand, shError, shSettled, shResult >>
  /\ UNCHANGED << shThrown, sessVars, orchVars, patVars >>

\* child.stderr.on('data', ...)
StderrData ==
  /\ shPc = "running"
  /\ Len(shEvents) < MaxEvents
  /\ \E data \in Chunks :
       /\ shError' = shError \o data
       /\ shEvents' = Append(shEvents, Event("stderr", data, 0))
  /\ UNCHANGED << shPc, shCommand, shOutput, shSettled, shResult >>
  /\ UNCHANGED << shThrown, sessVars, orchVars, patVars >>

\* CloseResult with success: !code, which takes an exit by signal for success
CloseResultNotCode(code, output, error) ==
  [success |-> code <= 0,
   output  |-> TrimOrUndefined(output),
   error   |-> TrimOrUndefined(error)]

\* the result the close handler passes to resolve (lines 166-170)
CloseResult(code, output, error) ==
  [success |-> code = 0,
   output  |-> TrimOrUndefined(output),
   error   |-> TrimOrUndefined(error)]

\* the result the error handler passes to resolve (lines 174-177)
ErrorResult(message) ==
  [success |-> FALSE, output |-> << >>, error |-> << message >>]

\* Close whose handler replaces a result already produced
CloseOverwrites ==
  /\ shPc = "running"
  /\ Len(shEvents) < MaxEvents
  /\ \E code \in ExitCodes :
       /\ shEvents' = Append(shEvents, Event("close", "", code))
       /\ shResult' = CloseResult(code, shOutput, shError)
  /\ shSettled' = TRUE
  /\ UNCHANGED << shPc, shCommand, shOutput, shError >>
  /\ UNCHANGED << shThrown, sessVars, orchVars, patVars >>

\* child.on('close', ...): resolve settles the promise only the first time
Close ==
  /\ shPc = "running"
  /\ Len(shEvents) < MaxEvents
  /\ \E code \in ExitCodes :
       /\ shEvents' = Append(shEvents, Event("close", "", code))
       /\ shResult' = IF shSettled THEN shResult
                      ELSE CloseResult(code, shOutput, shError)
  /\ shSettled' = TRUE
  /\ UNCHANGED << shPc, shCommand, shOutput, shError >>
  /\ UNCHANGED << shThrown, sessVars, orchVars, patVars >>

\* child.on('error', ...)
ErrorEvent ==
  /\ shPc = "running"
  /\ Len(shEvents) < MaxEvents
  /\ \E message \in LaunchErrors :
       /\ shEvents' = Append(shEvents, Event("error", message, 0))
       /\ shResult' = IF shSettled THEN shResult ELSE ErrorResult(message)
  /\ shSettled' = TRUE
  /\ UNCHANGED << shPc, shCommand, shOutput, shError >>
  /\ UNCHANGED << shThrown, sessVars, orchVars, patVars >>

\* ------------------------------------------------------------ executeCommand
\* the candidates the tests hand to executeCommand (part_000:246-257)
ExecOptions == { MockCommands[i] : i \in 1..Len(MockCommands) }

\* the errors runShellCommand's promise is rejected with: the stub of the
\* test (part_000:395) and an exception of spawn inside the executor
ThrownErrors == {"Command not found", "spawn EAGAIN"}

\* lines 128-141: what is logged for a result runShellCommand resolved with
ResultReport(result) ==
  IF result.success
  THEN << "Command executed successfully!" >>
         \o (IF result.output # << >>
             THEN << "Output:", result.output[1] >> ELSE << >>)
  ELSE << "Command failed!" >>
         \o (IF result.error # << >>
             THEN << "Error:", result.error[1] >> ELSE << >>)

\* lines 119-124: the two lines logged, then the call of runShellCommand
\* with commandOption.command; spawn launches the child or throws, and an
\* exception inside the Promise executor rejects the promise
ExecuteCommand ==
  /\ pc = "execReady"
  /\ \E commandOption \in ExecOptions :
       /\ console' = console \o << "Executing command...",
                                   "Running: " \o commandOption.command.v >>
       /\ shCommand' = commandOption.command.v
  /\ execCount' = execCount + 1
  /\ pc' = "execAwait"
  /\ \/ /\ shPc' = "running"
        /\ shOutput' = ""
        /\ shError' = ""
        /\ shThrown' = shThrown
     \/ /\ \E message \in ThrownErrors : shThrown' = << message >>
        /\ shPc' = "threw"
        /\ UNCHANGED << shOutput, shError >>
  /\ UNCHANGED << shSettled, shResult, shEvents >>
  /\ UNCHANGED << options, answers, instruction, prompts, rejects, stub >>
  /\ UNCHANGED << orchVars, patVars >>

\* lines 124-141: the await continues with the result
ExecuteResolved ==
  /\ pc = "execAwait"
  /\ shSettled
  /\ console' = console \o ResultReport(shResult)
  /\ pc' = "execDone"
  /\ UNCHANGED << options, answers, instruction, prompts, rejects, execCount,
                  stub >>
  /\ UNCHANGED << orchVars, patVars, shVars >>

\* executeCommand without its try/catch: the rejection leaves executeCommand
ExecutePropagates ==
  /\ pc = "execAwait"
  /\ shThrown # << >>
  /\ pc' = "execRejected"
  /\ UNCHANGED << options, answers, instruction, console, prompts, rejects,
                  execCount, stub >>
  /\ UNCHANGED << orchVars, patVars, shVars >>

\* lines 142-146: the catch block
ExecuteCaught ==
  /\ pc = "execAwait"
  /\ shThrown # << >>
  /\ console' = console \o << "Execution failed!", "Error: " \o shThrown[1] >>
  /\ pc' = "execDone"
  /\ UNCHANGED << options, answers, instruction, prompts, rejects, execCount,
                  stub >>
  /\ UNCHANGED << orchVars, patVars, shVars >>

\* --------------------------------------------------------- specifications
SessIdle ==
  /\ options = [instruction |-> << >>, dry |-> FALSE]
  /\ answers = [selectedIndex |-> -1, confirm |-> FALSE]
  /\ pc = "off"
  /\ instruction = << >>
  /\ console = << >>
  /\ prompts = << >>
  /\ rejects = 0
  /\ execCount = 0
  /\ stub = << >>

\* no credential in the environment, hence no client (lines 253-260)
NoClient == apiKey = << >> /\ hasClient = FALSE

OrchIdle ==
  /\ requests = 0
  /\ orchPc = "idle"
  /\ orchInput = ""
  /\ response = NoResp
  /\ aiOutcome = NoOutcome
  /\ orchResult = << >>
  /\ warnings = << >>
  /\ aiCalls = 0
  /\ patCalls = 0

PatIdle == patIn = "" /\ patOut = << >> /\ patPc = "off"

ShIdle ==
  /\ shPc = "idle"
  /\ shCommand = ""
  /\ shOutput = ""
  /\ shError = ""
  /\ shSettled = FALSE
  /\ shResult = NoResult
  /\ shEvents = << >>
  /\ shThrown = << >>

\* One session of the program: the command runner with the services the
\* module wires to it (app.module.ts:6-8).
Init ==
  /\ options \in [instruction : {<< >>, << "" >>}
                                  \cup { << i >> : i \in SessionInstructions },
                  dry : BOOLEAN]
  /\ answers \in [selectedIndex : {-1, 0}, confirm : BOOLEAN]
  /\ pc = "start"
  /\ instruction = << >>
  /\ console = << >>
  /\ prompts = << >>
  /\ rejects = 0
  /\ execCount = 0
  /\ stub \in Stubs
  /\ apiKey \in {<< >>, << "test-api-key" >>}
  /\ hasClient = Constructor(apiKey)
  /\ OrchIdle
  /\ PatIdle
  /\ ShIdle

Next == Start \/ PromptInstruction \/ Resolve \/ AIReply

Spec == Init /\ [][Next]_vars

\* The Pattern Resolver applied to an instruction.
PatInit ==
  /\ SessIdle
  /\ NoClient
  /\ OrchIdle
  /\ patIn \in PatternInputs
  /\ patOut = << >>
  /\ patPc = "ready"
  /\ ShIdle

PatNext == PatParse

PatternSpec == PatInit /\ [][PatNext]_vars

\* One call of runShellCommand and the events of its child process.
ShInit ==
  /\ SessIdle
  /\ NoClient
  /\ OrchIdle
  /\ PatIdle
  /\ ShIdle

\* The AI Resolver called directly, with and without a credential.
AIInit ==
  /\ SessIdle
  /\ apiKey \in {<< >>, << "" >>, << "test-api-key" >>}
  /\ hasClient = Constructor(apiKey)
  /\ requests = 0
  /\ orchPc = "aiReady"
  /\ orchInput = ""
  /\ response = NoResp
  /\ aiOutcome = NoOutcome
  /\ orchResult = << >>
  /\ warnings = << >>
  /\ aiCalls = 0
  /\ patCalls = 0
  /\ PatIdle
  /\ ShIdle

AINext == ConvertCall \/ ConvertAnswer

AISpec == AIInit /\ [][AINext]_vars

\* executeCommand called on a candidate, as the tests call it, with the
\* Shell Executor behind it.
ExecInit ==
  /\ options = [instruction |-> << >>, dry |-> FALSE]
  /\ answers = [selectedIndex |-> -1, confirm |-> FALSE]
  /\ pc = "execReady"
  /\ instruction = << >>
  /\ console = << >>
  /\ prompts = << >>
  /\ rejects = 0
  /\ execCount = 0
  /\ stub = << >>
  /\ NoClient
  /\ OrchIdle
  /\ PatIdle
  /\ ShIdle

ExecNext ==
  \/ ExecuteCommand \/ StdoutData \/ StderrData \/ Close \/ ErrorEvent
  \/ ExecuteResolved \/ ExecuteCaught

ExecSpec == ExecInit /\ [][ExecNext]_vars

ShNext == RunShellCommand \/ StdoutData \/ StderrData \/ Close \/ ErrorEvent

ShellSpec == ShInit /\ [][ShNext]_vars

\* ------------------------------------------------------------------ claims
\* the session is over: run() has returned or has thrown
SessionOver == pc \in {"done", "rejected"}

\* the instruction as the Pattern Resolver tests it
PatNormalized == Normalize(patIn)

DeletionKeywords == {"delete", "remove", "rm"}

DirectoryKeywords == {"directory", "folder"}

\* the positions of the commands of the Pattern Resolver's output whose text
\* contains k
PatContaining(k) == { i \in 1..Len(patOut) : Includes(patOut[i].command.v, k) }

\* the positions of the commands whose text begins with k
PatBeginning(k) == { i \in 1..Len(patOut) : StartsAt(patOut[i].command.v, 1, k) }

\* C1: the Shell Executor is invoked only if the user selected a candidate
\* other than Cancel, the dry flag is not set and the user confirmed; a
\* session whose user cancels at the selection ends there, after the
\* selection prompt, with no invocation of the executor.
C1_ExecutorOnlyAfterConfirm ==
  /\ execCount > 0 =>
       answers.selectedIndex # -1 /\ ~options.dry /\ answers.confirm
  /\ (SessionOver /\ answers.selectedIndex = -1) =>
       /\ pc = "done"
       /\ \E k \in 1..Len(prompts) : prompts[k] = "list"
       /\ execCount = 0

\* C2: a session with the dry flag whose user selects a candidate ends with
\* the selected command's text in its output, without the confirmation
\* prompt and without an execution.
C2_DryRunShowsCommand ==
  (SessionOver /\ options.dry /\ answers.selectedIndex # -1) =>
    /\ \E k \in 1..Len(console) : StartsAt(console[k], 1, "Command: ")
    /\ \A k \in 1..Len(prompts) : prompts[k] # "confirm"
    /\ execCount = 0

\* C3: with a client, when convertToCommands returns a non-empty list,
\* parseNaturalLanguage returns that list, element for element, and the
\* Pattern Resolver is not run.
C3_AIListVerbatim ==
  (orchPc = "done" /\ hasClient /\ aiOutcome.ok /\ Len(aiOutcome.commands) > 0) =>
    /\ Len(orchResult) = Len(aiOutcome.commands)
    /\ \A i \in 1..Len(orchResult) : orchResult[i] = aiOutcome.commands[i]
    /\ patCalls = 0

C3_Witness ==
  /\ orchPc = "done" /\ hasClient /\ aiOutcome.ok
  /\ Len(aiOutcome.commands) = MaxReply
  /\ orchResult = aiOutcome.commands
  /\ orchInput = "delete a directory"

\* C4: with a client, when convertToCommands throws or returns the empty
\* list, parseNaturalLanguage returns what parseWithPatterns returns for the
\* same instruction.
C4_FallbackEqualsPatterns ==
  (orchPc = "done" /\ hasClient
     /\ (~aiOutcome.ok \/ Len(aiOutcome.commands) = 0)) =>
    /\ orchResult = parseWithPatterns(orchInput)
    /\ patCalls = 1

C4_Witness ==
  /\ orchPc = "done" /\ hasClient /\ ~aiOutcome.ok
  /\ aiOutcome.message = "OpenAI API error: Network error"
  /\ orchInput = "delete a directory"
  /\ \E i \in 1..Len(orchResult) : orchResult[i].command.v = "rm -rf directory"

\* C5: whatever the instruction and whatever the AI Resolver does (no client,
\* an error, an empty list, a non-empty list), a finished parseNaturalLanguage
\* has returned a list of at least one command; it has no failing outcome.
C5_ResolveNeverEmpty ==
  /\ orchPc \in {"idle", "awaitAI", "done"}
  /\ orchPc = "done" => Len(orchResult) >= 1

C5_Witness ==
  /\ orchPc = "done" /\ hasClient /\ aiOutcome.ok
  /\ Len(aiOutcome.commands) = 0
  /\ orchInput = "some random instruction"
  /\ Len(orchResult) = 3

\* C6 as stated: for an instruction with a deletion keyword and "directory"
\* or "folder", exactly one command of the output contains "rm -rf", and it
\* is tagged high.
C6_AsStated ==
  (patPc = "done" /\ matches(PatNormalized, DeletionKeywords)
     /\ matches(PatNormalized, DirectoryKeywords)) =>
    /\ Cardinality(PatContaining("rm -rf")) = 1
    /\ \A i \in PatContaining("rm -rf") : patOut[i].risk.v = "high"

\* C6: for an instruction with a deletion keyword and "directory" or "folder"
\* that does not contain "file", exactly one command of the output begins
\* with "rm -rf ", and it is tagged high.
C6_DeleteDirectory ==
  (patPc = "done" /\ matches(PatNormalized, DeletionKeywords)
     /\ matches(PatNormalized, DirectoryKeywords)
     /\ ~matches(PatNormalized, {"file"})) =>
    /\ Cardinality(PatBeginning("rm -rf ")) = 1
    /\ \A i \in PatBeginning("rm -rf ") : patOut[i].risk.v = "high"

C6_Witness ==
  /\ patPc = "done" /\ patIn = "Remove folder 'logs'"
  /\ \E i \in 1..Len(patOut) :
       patOut[i] = Cmd("rm -rf logs", "Delete directory and all contents: logs",
                       "high")

\* C7 as stated: for an instruction with a deletion keyword and "file" and no
\* directory keyword, the output has a command that contains "rm " but not
\* "rm -rf", tagged medium.
C7_AsStated ==
  (patPc = "done" /\ matches(PatNormalized, DeletionKeywords)
     /\ matches(PatNormalized, {"file"})
     /\ ~matches(PatNormalized, DirectoryKeywords)) =>
    \E i \in 1..Len(patOut) :
      /\ Includes(patOut[i].command.v, "rm ")
      /\ ~Includes(patOut[i].command.v, "rm -rf")
      /\ patOut[i].risk.v = "medium"

\* C7: for an instruction with a deletion keyword and "file", exactly one
\* command of the output begins with "rm ": it is "rm " followed by the
\* extracted file name, or by "filename" when none is extracted, it is tagged
\* medium, and it contains "rm -rf" only when that name begins with "-rf" or
\* contains "rm -rf" itself.
C7_DeleteFile ==
  (patPc = "done" /\ matches(PatNormalized, DeletionKeywords)
     /\ matches(PatNormalized, {"file"})) =>
    /\ Cardinality(PatBeginning("rm ")) = 1
    /\ \A i \in PatBeginning("rm ") :
         /\ patOut[i].command.v =
              "rm " \o OrDefault(extractFileName(PatNormalized), "filename")
         /\ patOut[i].risk.v = "medium"
         /\ Includes(patOut[i].command.v, "rm -rf") =>
              \/ StartsAt(OrDefault(extractFileName(PatNormalized), "filename"),
                          1, "-rf")
              \/ Includes(OrDefault(extractFileName(PatNormalized), "filename"),
                          "rm -rf")

C7_Witness ==
  /\ patPc = "done" /\ patIn = "Remove file 'logs'"
  /\ \E i \in 1..Len(patOut) :
       patOut[i] = Cmd("rm logs", "Delete file: logs", "medium")

\* C8: the Pattern Resolver never returns the empty list; when no rule group
\* appended a command it returns "ls -la", "pwd", "help" in that order, all
\* low, and when a rule group appended one it returns the appended commands
\* and nothing else.
C8_FallbackOnlyWhenEmpty ==
  patPc = "done" =>
    /\ Len(patOut) >= 1
    /\ RuleCommands(PatNormalized) = << >> =>
         /\ Len(patOut) = 3
         /\ << patOut[1].command.v, patOut[2].command.v, patOut[3].command.v >>
              = << "ls -la", "pwd", "help" >>
         /\ \A i \in 1..3 : patOut[i].risk.v = "low"
    /\ RuleCommands(PatNormalized) # << >> =>
         /\ patOut = RuleCommands(PatNormalized)
         /\ PatContaining("help") = {}

C8_Witness ==
  /\ patPc = "done" /\ patIn = "rm"
  /\ Len(patOut) = 3
  /\ patOut[3].command.v = "help"

\* C9: every command convertToCommands returns has a risk among low, medium,
\* high: a risk of the reply that is one of the three is kept, any other one
\* becomes medium; the other fields and the order are those of the reply.
C9_RiskNormalized ==
  (orchPc = "done" /\ aiOutcome.ok) =>
    /\ Len(aiOutcome.commands) = Len(response.items)
    /\ \A i \in 1..Len(aiOutcome.commands) :
         /\ aiOutcome.commands[i].risk.t = "str"
         /\ aiOutcome.commands[i].risk.v \in {"low", "medium", "high"}
         /\ aiOutcome.commands[i].risk =
              IF response.items[i].risk \in
                   {Str("low"), Str("medium"), Str("high")}
              THEN response.items[i].risk ELSE Str("medium")
         /\ aiOutcome.commands[i].command = response.items[i].command
         /\ aiOutcome.commands[i].description = response.items[i].description

C9_Witness ==
  /\ orchPc = "done" /\ aiOutcome.ok
  /\ \E i \in 1..Len(aiOutcome.commands) :
       /\ response.items[i].risk = Str("HIGH")
       /\ aiOutcome.commands[i].risk = Str("medium")

\* the events up to the first close or error event are k - 1 data events
FirstSettleAt(k) ==
  /\ k \in 1..Len(shEvents)
  /\ shEvents[k].ev \in {"close", "error"}
  /\ \A j \in 1..(k - 1) : shEvents[j].ev \in {"stdout", "stderr"}

RECURSIVE DataBefore(_, _)
DataBefore(k, stream) ==
  IF k <= 1 THEN ""
  ELSE DataBefore(k - 1, stream)
         \o (IF shEvents[k - 1].ev = stream THEN shEvents[k - 1].data ELSE "")

\* C11: the result of runShellCommand is the one of the first close or error
\* event, whatever follows it: after a launch error it is success false with
\* the error's message and no output; after a close it is built from the
\* exit code and the data received before the close. A later close or error
\* event does not change it.
C11_LaunchErrorResultOnce ==
  \A k \in 1..Len(shEvents) :
    FirstSettleAt(k) =>
      /\ shEvents[k].ev = "error" =>
           shResult = [success |-> FALSE, output |-> << >>,
                       error |-> << shEvents[k].data >>]
      /\ shEvents[k].ev = "close" =>
           /\ shResult.success = (shEvents[k].code = 0)
           /\ shResult.output =
                (IF Trim(DataBefore(k, "stdout")) = "" THEN << >>
                 ELSE << Trim(DataBefore(k, "stdout")) >>)
           /\ shResult.error =
                (IF Trim(DataBefore(k, "stderr")) = "" THEN << >>
                 ELSE << Trim(DataBefore(k, "stderr")) >>)

C11_Witness ==
  /\ Len(shEvents) >= 2
  /\ shEvents[1].ev = "error"
  /\ shEvents[2].ev = "close" /\ shEvents[2].code = 0
  /\ shResult = [success |-> FALSE, output |-> << >>,
                 error |-> << "spawn sh ENOENT" >>]

\* the promise returned by parseNaturalLanguage has been resolved
ResolveDone == stub # << >> \/ orchPc = "done"

\* the list it has been resolved with
ResolveResult == IF stub # << >> THEN stub[1] ELSE orchResult

\* line k of the console output exists and is the text m
Logged(m) == \E k \in 1..Len(console) : console[k] = m

\* a prompt of the given type has been issued
Prompted(type) == \E k \in 1..Len(prompts) : prompts[k] = type

\* C12: a session whose parseNaturalLanguage resolved with the empty list
\* ends, by a return, with the message that no matching commands were found,
\* without the candidates' header and without selection or confirmation
\* prompt.
C12_EmptyResultEndsSession ==
  (SessionOver /\ ResolveDone /\ ResolveResult = << >>) =>
    /\ pc = "done"
    /\ Logged("No matching commands found for your instruction.")
    /\ ~Logged("Available Commands:")
    /\ ~Prompted("list") /\ ~Prompted("confirm")

\* the console lines that report how a session ended (part_000:53, 83, 96,
\* 110, 129, 135, 143)
TerminalOutcomes ==
  { "No matching commands found for your instruction.",
    "Operation cancelled.",
    "Dry run mode - command will not be executed.",
    "Command execution cancelled.",
    "Command executed successfully!",
    "Command failed!",
    "Execution failed!" }

\* C13: a session that is over has ended by a return of run(), not by an
\* uncaught exception, and has printed one of the terminal outcomes.
C13_EndsWithOutcome ==
  SessionOver =>
    /\ pc = "done"
    /\ \E m \in TerminalOutcomes : Logged(m)

\* the text has a character that is not whitespace
NonBlank(e) == \E i \in 1..Len(e) : ~IsWs(Char(e, i))

\* the instruction passed to parseNaturalLanguage is the text t
Resolves(t) ==
  /\ instruction = << t >>
  /\ stub = << >> => orchInput = t

\* C14 as stated: with an instruction option the session issues no
\* instruction prompt and resolves the option's text; without one it issues
\* the prompt and resolves an entry that is not blank.
C14_AsStated ==
  pc # "start" =>
    IF options.instruction # << >>
    THEN /\ ~Prompted("input")
         /\ SessionOver => Resolves(options.instruction[1])
    ELSE /\ Prompted("input")
         /\ SessionOver => \E e \in PromptEntries : NonBlank(e) /\ Resolves(e)

\* C14: with a non-empty instruction option the session issues no
\* instruction prompt and resolves the option's text. With no option, or an
\* empty one, it issues the text prompt first; the prompt's validation
\* accepts exactly the entries that have a character other than whitespace,
\* and the session resolves the accepted entry.
C14_InstructionSource ==
  pc # "start" =>
    IF options.instruction # << >> /\ options.instruction[1] # ""
    THEN /\ ~Prompted("input")
         /\ SessionOver => Resolves(options.instruction[1])
    ELSE /\ prompts[1] = "input"
         /\ \A e \in PromptEntries : validate(e) <=> NonBlank(e)
         /\ SessionOver => \E e \in PromptEntries : NonBlank(e) /\ Resolves(e)

C14_Witness ==
  /\ SessionOver
  /\ options.instruction = << >>
  /\ rejects = 1
  /\ prompts = << "input" >>
  /\ instruction = << "list files" >>
  /\ orchInput = "list files"

\* a call of convertToCommands on a resolver with a client has finished
ConvertDone == orchPc = "aiDone" /\ hasClient

\* the call failed with an error whose message contains m
FailedWith(m) == ~aiOutcome.ok /\ Includes(aiOutcome.message, m)

\* element i of the reply is an object that has no such field
LacksField(i) ==
  /\ response.items[i].t = "obj"
  /\ \/ response.items[i].command.t = "undefined"
     \/ response.items[i].description.t = "undefined"
     \/ response.items[i].risk.t = "undefined"

\* element i of the reply is an object with a non-empty command, a non-empty
\* description and some risk value, recognized or not
HasAllFields(i) ==
  /\ response.items[i].t = "obj"
  /\ response.items[i].command.t = "str" /\ response.items[i].command.v # ""
  /\ response.items[i].description.t = "str"
  /\ response.items[i].description.v # ""
  /\ response.items[i].risk.t # "undefined"

\* element i of the reply is null, or one of its three fields is missing or
\* is the empty string
Unacceptable(i) ==
  \/ response.items[i].t = "null"
  \/ response.items[i].command \in {Undefined, Str("")}
  \/ response.items[i].description \in {Undefined, Str("")}
  \/ response.items[i].risk \in {Undefined, Str("")}

\* C15 as stated: for an array reply, an element without command,
\* description or risk makes convertToCommands fail with InvalidStructure
\* and return nothing, and elements that have the three fields never make
\* it fail, whatever their risk value.
C15_AsStated ==
  (ConvertDone /\ response.kind = "array") =>
    /\ (\E i \in 1..Len(response.items) : LacksField(i)) =>
         /\ FailedWith("Invalid command structure from OpenAI")
         /\ aiOutcome.commands = << >>
    /\ (\A i \in 1..Len(response.items) : HasAllFields(i)) => aiOutcome.ok

\* C15: for an array reply, convertToCommands returns a list, with one
\* command per element, exactly when no element is null and no element has
\* a missing or empty command, description or risk; otherwise it fails and
\* returns no commands at all, with InvalidStructure when the first such
\* element is an object and with a wrapped TypeError when it is null. A
\* non-empty risk value that is not recognized never makes it fail.
C15_StructureValidation ==
  (ConvertDone /\ response.kind = "array") =>
    IF \A i \in 1..Len(response.items) : ~Unacceptable(i)
    THEN aiOutcome.ok /\ Len(aiOutcome.commands) = Len(response.items)
    ELSE /\ ~aiOutcome.ok
         /\ aiOutcome.commands = << >>
         /\ \A i \in 1..Len(response.items) :
              (Unacceptable(i) /\ \A j \in 1..(i - 1) : ~Unacceptable(j)) =>
                IF response.items[i].t = "null"
                THEN aiOutcome.message =
                       "OpenAI API error: Cannot read properties of null (reading 'command')"
                ELSE aiOutcome.message =
                       "OpenAI API error: Invalid command structure from OpenAI"

C15_Witness ==
  /\ ConvertDone /\ response.kind = "array"
  /\ Len(response.items) = 2
  /\ HasAllFields(1) /\ response.items[1].risk = Str("HIGH")
  /\ LacksField(2)
  /\ FailedWith("Invalid command structure from OpenAI")
  /\ aiOutcome.commands = << >>

\* C16: with a client, a reply without content, or with empty content, fails
\* with the NoResponse message; content that is not JSON fails with the
\* InvalidJSON message; JSON that is not an array fails with the
\* InvalidFormat message; the three messages differ from each other.
C16_MalformedReplyKinds ==
  ConvertDone =>
    /\ response.kind \in {"noContent", "emptyContent"} =>
         /\ ~aiOutcome.ok
         /\ aiOutcome.message = "OpenAI API error: No response from OpenAI"
    /\ response.kind = "notJson" =>
         /\ ~aiOutcome.ok
         /\ aiOutcome.message = "Invalid JSON response from OpenAI"
    /\ response.kind = "notArray" =>
         /\ ~aiOutcome.ok
         /\ aiOutcome.message =
              "OpenAI API error: Invalid response format from OpenAI"

C16_Witness ==
  /\ ConvertDone /\ response.kind = "notJson"
  /\ aiOutcome.message = "Invalid JSON response from OpenAI"
  /\ requests = 1

\* the completion-service call failed (the request was rejected)
ServiceFailed == response.kind \in {"apiError", "apiSyntax", "rejectNull"}

QuotaMessage == "OpenAI API quota exceeded. Please check your billing."

InvalidKeyMessage ==
  "Invalid OpenAI API key. Please check your OPENAI_API_KEY environment variable."

\* C17 as stated: a service failure with code insufficient_quota gives the
\* quota error, one with code invalid_api_key the invalid-credential error,
\* every other one the generic error "OpenAI API error: " and the underlying
\* message.
C17_AsStated ==
  (ConvertDone /\ ServiceFailed) =>
    /\ ~aiOutcome.ok
    /\ aiOutcome.message =
         IF response.code = "insufficient_quota" THEN QuotaMessage
         ELSE IF response.code = "invalid_api_key" THEN InvalidKeyMessage
         ELSE "OpenAI API error: " \o response.message

\* C17: a service failure that is an Error other than a SyntaxError gives
\* the quota error for code insufficient_quota, the invalid-credential error
\* for code invalid_api_key and otherwise the generic error "OpenAI API
\* error: " followed by the underlying message, three different messages; a
\* SyntaxError gives the InvalidJSON error whatever its code, and a
\* rejection with null leaves the call with a TypeError.
C17_ServiceErrorKinds ==
  (ConvertDone /\ ServiceFailed) =>
    /\ ~aiOutcome.ok
    /\ response.kind = "apiError" =>
         /\ aiOutcome.message =
              IF response.code = "insufficient_quota" THEN QuotaMessage
              ELSE IF response.code = "invalid_api_key" THEN InvalidKeyMessage
              ELSE "OpenAI API error: " \o response.message
         /\ (aiOutcome.message = QuotaMessage)
              <=> (response.code = "insufficient_quota")
         /\ (aiOutcome.message = InvalidKeyMessage)
              <=> (response.code = "invalid_api_key")
    /\ response.kind = "apiSyntax" =>
         aiOutcome.message = "Invalid JSON response from OpenAI"
    /\ response.kind = "rejectNull" => aiOutcome.name = "TypeError"

C17_Witness ==
  /\ ConvertDone /\ response.kind = "apiError"
  /\ response.code = "insufficient_quota"
  /\ aiOutcome.message = QuotaMessage

NotConfiguredMessage ==
  "OpenAI API key not configured. Please set OPENAI_API_KEY environment variable."

\* C18: the resolver is configured exactly when a non-empty credential was
\* present at its construction; a finished convertToCommands has failed
\* with NotConfigured exactly when the resolver is not configured, and a
\* resolver that is not configured sends no request.
C18_NotConfigured ==
  /\ isConfigured <=> (apiKey # << >> /\ apiKey # << "" >>)
  /\ orchPc = "aiDone" =>
       ((~aiOutcome.ok /\ aiOutcome.message = NotConfiguredMessage)
          <=> ~isConfigured)
  /\ ~isConfigured => requests = 0
  /\ requests <= aiCalls

C18_Witness ==
  /\ orchPc = "aiDone"
  /\ apiKey = << "" >>
  /\ ~aiOutcome.ok /\ aiOutcome.message = NotConfiguredMessage
  /\ aiCalls = 1 /\ requests = 0

\* a command with a non-empty text, a non-empty description and one of the
\* three risk levels
WellFormed(c) ==
  /\ c.command.t = "str" /\ c.command.v # ""
  /\ c.description.t = "str" /\ c.description.v # ""
  /\ c.risk.t = "str" /\ c.risk.v \in {"low", "medium", "high"}

C20_RenderAfterResolve ==
  /\ (Logged("Available Commands:") \/ Prompted("list")) => ResolveDone
  /\ (SessionOver /\ ResolveDone /\ ResolveResult # << >>) =>
       \A i \in 1..Len(ResolveResult) : Logged(ResolveResult[i].command.v)

\* C21: a finished parseNaturalLanguage has called convertToCommands once
\* when the AI Resolver is configured and never when it is not, and it has
\* called parseWithPatterns once, except after a non-empty AI list, when it
\* has not called it; one request went to the service per call of
\* convertToCommands; the session runs the Shell Executor at most once.
C21_NoRetries ==
  /\ orchPc = "done" =>
       /\ aiCalls = (IF isConfigured THEN 1 ELSE 0)
       /\ requests = aiCalls
       /\ patCalls =
            (IF isConfigured /\ aiOutcome.ok /\ Len(aiOutcome.commands) > 0
             THEN 0 ELSE 1)
  /\ aiCalls <= 1 /\ patCalls <= 1
  /\ execCount <= 1

C21_Witness ==
  /\ orchPc = "done" /\ isConfigured
  /\ ~aiOutcome.ok /\ aiOutcome.message = QuotaMessage
  /\ aiCalls = 1 /\ requests = 1 /\ patCalls = 1

\* C22 as stated: after a configured AI Resolver threw or returned the empty
\* list, parseNaturalLanguage has logged a warning; without a configured
\* resolver it has logged none.
C22_AsStated ==
  orchPc = "done" =>
    IF isConfigured /\ (~aiOutcome.ok \/ Len(aiOutcome.commands) = 0)
    THEN Len(warnings) = 1
    ELSE warnings = << >>

\* C22: parseNaturalLanguage logs one warning, with the error's message,
\* when the configured AI Resolver threw, and no warning otherwise: none
\* when the resolver returned the empty list, none when it returned a
\* non-empty list, none when it is not configured.
C22_WarningOnThrowOnly ==
  orchPc = "done" =>
    warnings =
      IF isConfigured /\ ~aiOutcome.ok
      THEN << "OpenAI API failed, falling back to pattern matching: "
                \o aiOutcome.message >>
      ELSE << >>

C22_Witness ==
  /\ orchPc = "done" /\ isConfigured
  /\ aiOutcome.ok /\ Len(aiOutcome.commands) = 0
  /\ warnings = << >>
  /\ patCalls = 1

\* C23: when runShellCommand's promise rejects, executeCommand does not
\* reject: it ends normally, having logged "Execution failed!" and then
\* "Error: " followed by the exception's message, and neither of the two
\* reports of a result; runShellCommand was called once.
C23_RejectionCaught ==
  (shThrown # << >> /\ pc \in {"execDone", "execRejected"}) =>
    /\ pc = "execDone"
    /\ Len(console) = 4
    /\ console[3] = "Execution failed!"
    /\ console[4] = "Error: " \o shThrown[1]
    /\ execCount = 1

C23_Witness ==
  /\ pc = "execDone"
  /\ shThrown = << "Command not found" >>
  /\ Logged("Execution failed!")
  /\ Logged("Error: Command not found")

\* C24: the Pattern Resolver's output is the outputs of the rule groups, one
\* after the other in the order the rules are declared, every group whose
\* keyword test matches contributing (the general suggestions stand in when
\* that concatenation is empty); an instruction with a listing keyword and a
\* git keyword gets the listing commands first and the git commands after.
C24_Concatenation ==
  patPc = "done" =>
    LET n == PatNormalized
        all == ListGroup(n) \o CreateDirGroup(n) \o CreateFileGroup(n)
                 \o DeleteGroup(n) \o GitStatusGroup(n) \o GitAddGroup(n)
                 \o GitCommitGroup(n) \o GitPushGroup(n) \o GitPullGroup(n)
                 \o PwdGroup(n) \o DiskGroup(n) \o ProcessGroup(n)
                 \o SearchGroup(n) \o InstallGroup(n) \o RunGroup(n)
                 \o BuildGroup(n)
    IN  /\ patOut = (IF all = << >> THEN GeneralSuggestions ELSE all)
        /\ (Includes(n, "list") /\ Includes(n, "git")) =>
             /\ patOut[1].command.v = "ls -la"
             /\ PatBeginning("git status") # {}
             /\ PatBeginning("git push origin main") # {}
             /\ \A i \in PatBeginning("git") : i > 2
        /\ Includes(n, "folder") => PatBeginning("mkdir -p ") # {}
        /\ Includes(n, "file") => PatBeginning("touch ") # {}

C24_Witness ==
  /\ patPc = "done"
  /\ patIn = "list git status"
  /\ Len(patOut) = 10
  /\ patOut[1].command.v = "ls -la"
  /\ patOut[3].command.v = "git status"

\* C27: for an instruction that contains "git" or "push" the Pattern Resolver
\* emits "git push origin main" and, right after it, "git push", each once
\* and each with risk medium; for any other instruction it emits neither.
C27_GitPush ==
  patPc = "done" =>
    IF Includes(PatNormalized, "git") \/ Includes(PatNormalized, "push")
    THEN \E i \in 1..(Len(patOut) - 1) :
           /\ patOut[i].command = Str("git push origin main")
           /\ patOut[i].risk = Str("medium")
           /\ patOut[i + 1].command = Str("git push")
           /\ patOut[i + 1].risk = Str("medium")
           /\ \A j \in 1..Len(patOut) :
                /\ patOut[j].command = Str("git push origin main") => j = i
                /\ patOut[j].command = Str("git push") => j = i + 1
    ELSE PatBeginning("git push") = {}

C27_Witness ==
  /\ patPc = "done"
  /\ patIn = "push to git"
  /\ patOut[5].command = Str("git push origin main")
  /\ patOut[6].command = Str("git push")

\* the Pattern Resolver's output has a command with exactly this text
PatHas(text) == \E i \in 1..Len(patOut) : patOut[i].command = Str(text)

\* the extractor found no argument: match is null, or the capture is blank
NoArgument(m) == m = << >> \/ m[1] = ""

\* C25 as stated: every rule whose extractor finds no argument, the deletion
\* rules included, emits its command with the generic placeholder of the
\* argument kind: new_directory, new_file.txt, search_term, package_name.
C25_AsStated ==
  patPc = "done" =>
    LET n == PatNormalized
    IN  /\ (matches(n, {"create", "make", "new", "folder", "directory"})
              /\ NoArgument(extractDirectoryName(n)))
             => PatHas("mkdir -p new_directory")
        /\ (matches(n, {"create", "make", "new", "file"})
              /\ NoArgument(extractFileName(n)))
             => PatHas("touch new_file.txt")
        /\ (matches(n, DeletionKeywords) /\ Includes(n, "file")
              /\ NoArgument(extractFileName(n)))
             => PatHas("rm new_file.txt")
        /\ (matches(n, DeletionKeywords) /\ ~Includes(n, "file")
              /\ matches(n, DirectoryKeywords)
              /\ NoArgument(extractDirectoryName(n)))
             => PatHas("rm -rf new_directory")
        /\ (matches(n, {"find", "search"}) /\ NoArgument(extractSearchTerm(n)))
             => PatHas("find . -name \"*search_term*\"")
        /\ (matches(n, {"install", "npm", "pnpm", "package"})
              /\ NoArgument(extractPackageName(n)))
             => PatHas("pnpm install package_name")

\* C25: a rule whose extractor finds no argument emits its command with a
\* placeholder and the resolver returns a list of well-formed commands: the
\* create rules use new_directory and new_file.txt, the search rule
\* search_term, the install rule package_name, and the deletion rules their
\* own placeholders, filename and directory.
C25_Placeholders ==
  patPc = "done" =>
    LET n == PatNormalized
    IN  /\ (matches(n, {"create", "make", "new", "folder", "directory"})
              /\ NoArgument(extractDirectoryName(n)))
             => PatHas("mkdir -p new_directory")
        /\ (matches(n, {"create", "make", "new", "file"})
              /\ NoArgument(extractFileName(n)))
             => PatHas("touch new_file.txt")
        /\ (matches(n, DeletionKeywords) /\ Includes(n, "file")
              /\ NoArgument(extractFileName(n)))
             => PatHas("rm filename") /\ ~PatHas("rm new_file.txt")
        /\ (matches(n, DeletionKeywords) /\ ~Includes(n, "file")
              /\ matches(n, DirectoryKeywords)
              /\ NoArgument(extractDirectoryName(n)))
             => PatHas("rm -rf directory") /\ ~PatHas("rm -rf new_directory")
        /\ (matches(n, {"find", "search"}) /\ NoArgument(extractSearchTerm(n)))
             => /\ PatHas("find . -name \"*search_term*\"")
                /\ PatHas("grep -r \"search_term\" .")
        /\ (matches(n, {"install", "npm", "pnpm", "package"})
              /\ NoArgument(extractPackageName(n)))
             => PatHas("pnpm install package_name")
        /\ Len(patOut) > 0
        /\ \A i \in 1..Len(patOut) :
             /\ WellFormed(patOut[i])
             /\ ~Includes(patOut[i].command.v, "null")

C25_Witness ==
  /\ patPc = "done"
  /\ patIn = "rm file"
  /\ NoArgument(extractFileName(PatNormalized))
  /\ PatHas("touch new_file.txt")
  /\ PatHas("rm filename")

\* one of the keywords of extractDirectoryName begins at position q of s
DirKeywordAt(s, q) ==
  StartsAt(s, q, "folder") \/ StartsAt(s, q, "directory") \/ StartsAt(s, q, "dir")

\* s reads: no directory keyword before q, then at q the keyword kw, a blank,
\* the optional word opt, and a tail that goes to the end of s, has no quote
\* and does not begin with a blank or, if opt is skipped, with an optional word
NamedAt(s, q, kw, opt) ==
  LET r == q + Len(kw) + 1 + Len(opt)
  IN  /\ StartsAt(s, q, kw \o " " \o opt)
      /\ \A p \in 1..(q - 1) : ~DirKeywordAt(s, p)
      /\ r <= Len(s)
      /\ ~IsWs(Char(s, r))
      /\ NonQuoteRun(s, r) = Len(s) - r + 1
      /\ opt = "" => ~StartsAt(s, r, "called") /\ ~StartsAt(s, r, "named")

NameAt(s, q, kw, opt) == SubSeq(s, q + Len(kw) + 1 + Len(opt), Len(s))

PatDeletions == PatBeginning("rm ")

\* C30 as stated: at most one deletion command is emitted; for an instruction
\* with a deletion keyword, "file" and a directory keyword it is the file
\* variant, of risk medium, and no command of the output begins with rm -rf;
\* with a deletion keyword and neither "file" nor a directory keyword no
\* deletion command is emitted.
C30_AsStated ==
  patPc = "done" =>
    /\ Cardinality(PatDeletions) <= 1
    /\ (matches(PatNormalized, DeletionKeywords) /\ Includes(PatNormalized, "file")
          /\ matches(PatNormalized, DirectoryKeywords))
         => /\ \E i \in PatDeletions :
                 /\ patOut[i].risk = Str("medium")
                 /\ StartsAt(patOut[i].description.v, 1, "Delete file: ")
            /\ PatBeginning("rm -rf") = {}
    /\ (matches(PatNormalized, DeletionKeywords) /\ ~Includes(PatNormalized, "file")
          /\ ~matches(PatNormalized, DirectoryKeywords))
         => PatDeletions = {}

\* C30: at most one deletion command is emitted; for an instruction with a
\* deletion keyword, "file" and a directory keyword it is the file variant,
\* of risk medium, the directory variant (risk high) is not emitted, and the
\* command begins with rm -rf only if the instruction itself has -rf in it;
\* with a deletion keyword and neither "file" nor a directory keyword, and
\* without a deletion keyword, no deletion command is emitted.
C30_OneDeletion ==
  patPc = "done" =>
    /\ Cardinality(PatDeletions) <= 1
    /\ (matches(PatNormalized, DeletionKeywords) /\ Includes(PatNormalized, "file")
          /\ matches(PatNormalized, DirectoryKeywords))
         => /\ \E i \in PatDeletions :
                 /\ patOut[i].risk = Str("medium")
                 /\ StartsAt(patOut[i].description.v, 1, "Delete file: ")
            /\ \A i \in 1..Len(patOut) :
                 /\ patOut[i].risk # Str("high")
                 /\ ~StartsAt(patOut[i].description.v, 1, "Delete directory")
            /\ PatBeginning("rm -rf") # {} => Includes(PatNormalized, "-rf")
    /\ (matches(PatNormalized, DeletionKeywords) /\ ~Includes(PatNormalized, "file")
          /\ ~matches(PatNormalized, DirectoryKeywords))
         => PatDeletions = {}
    /\ ~matches(PatNormalized, DeletionKeywords) => PatDeletions = {}

C30_Witness ==
  /\ patPc = "done"
  /\ patIn = "rm file folder"
  /\ PatDeletions = {3}
  /\ patOut[3].command = Str("rm folder")
  /\ patOut[3].risk = Str("medium")

\* C28: the prompts of a session are issued in the order instruction,
\* selection, confirmation, each at most once; the executor runs at most
\* once and only after the confirmation prompt; the resolve step is complete
\* before the session goes on to the selection or ends, and a session that
\* is over after a non-empty result has issued the selection prompt.
C28_StepOrder ==
  /\ prompts \in { << >>, << "input" >>, << "list" >>, << "input", "list" >>,
                   << "list", "confirm" >>, << "input", "list", "confirm" >> }
  /\ execCount <= 1
  /\ execCount > 0 => Prompted("confirm")
  /\ (Prompted("list") \/ SessionOver) => ResolveDone
  /\ (SessionOver /\ ResolveDone /\ ResolveResult # << >>) => Prompted("list")

\* C29: a session whose user selects a candidate and confirms, without the
\* dry flag, hands the shell the command field of the candidate at the
\* selected index, the text it printed in the "Command: " line of the
\* details; nothing else is ever handed to the shell.
C29_SelectedCommandToShell ==
  /\ execCount > 0 =>
       /\ answers.selectedIndex + 1 \in 1..Len(ResolveResult)
       /\ shCommand = ResolveResult[answers.selectedIndex + 1].command.v
       /\ Logged("Command: " \o shCommand)
  /\ (SessionOver /\ ResolveDone /\ ~options.dry /\ answers.confirm
        /\ answers.selectedIndex + 1 \in 1..Len(ResolveResult)) =>
       /\ execCount = 1
       /\ shCommand = ResolveResult[answers.selectedIndex + 1].command.v
       /\ Logged("Command: " \o shCommand)

====
